---- MODULE Spec2Model ----
(***************************************************************************)
(* The social feed backend (Express handlers over a MongoDB store).        *)
(*                                                                         *)
(* A handler is an async function: it runs synchronously up to each        *)
(* `await` of a store operation, and other requests run while it waits.    *)
(* Every store operation is one atomic step of the store, so each action   *)
(* below is one awaited store operation of one request together with the   *)
(* synchronous code that follows it, up to the next await or the response. *)
(* An awaited store operation may reject; the handler's catch block then   *)
(* answers 500 (action Fail).                                              *)
(***************************************************************************)
EXTENDS Integers, Sequences, FiniteSets, TLC

(* ------------------------------ bounds --------------------------------- *)

\* Tweet documents ever inserted (an ObjectId is never reused).
MaxTweets == 3

TweetIds == 1 .. MaxTweets

\* User documents ever stored by a registration.
MaxAccounts == 3

\* Requests that can be in flight at the same time; the handlers of the Tweet
\* collection are explored one request at a time, in slot "r1".
Slots == {"r1", "r2"}
OneSlot == {"r1"}

\* Registered users, each created with empty following / followers arrays.
Users == {"u1", "u2"}
\* A well-formed ObjectId that names no stored document.
NoUser == "nobody"
NoTweet == 0

(* --------------------------- program constants ------------------------- *)

\* TweetSchema.content maxlength
ContentMaxLength == 280
\* Defaults of the timeline's page and limit query parameters.
DefaultPage == 1
DefaultLimit == 10

(* ------------------------------- state --------------------------------- *)

VARIABLES
    following,  \* User.following: [Users -> SUBSET Users]
    followers,  \* User.followers: [Users -> SUBSET Users]
    tweets,     \* the Tweet collection: [stored ids -> document]
    nextId,     \* the next ObjectId of an inserted tweet
    reqs,       \* the requests in flight: [Slots -> request]
    overlap,    \* history: two follow calls on the same pair were in flight together
    accounts,   \* the username and email of the User documents stored by register
    last        \* history: the request answered most recently, until the next begins

vars == <<following, followers, tweets, nextId, reqs, overlap, accounts, last>>

(* ------------------------- MongoDB / Mongoose -------------------------- *)

\* { $addToSet: { field: x } }
AddToSet(S, x) == S \cup {x}

\* { $pull: { field: x } }
Pull(S, x) == S \ {x}

\* MongooseArray.includes(x)
Includes(S, x) == x \in S

\* Model.findById(id): the document, or null
Exists(id) == id \in DOMAIN tweets

(* ------------------------------ requests ------------------------------- *)

\* A request slot. op/pc: the handler and the await it is suspended at.
\* actor: req.user.id; target: req.params.id naming a user; tweet:
\* req.params.id naming a tweet; content/image/replyTo: req.body and req.file
\* of a create; username/email: req.body of a register; page/limit: the
\* timeline's query; flag: the handler's local
\* isFollowing / isLiked / isRetweeted; list: the timeline's local `following`
\* array; resp: the HTTP status answered; users/body: the JSON answered.
\* History kept beside the handler's own data:
\*   wrote         the request has changed the store;
\*   was, wasRev   the memberships it is about, in the store when it began
\*                 (follow: target in actor.following, actor in target.followers;
\*                  like / retweet: actor in tweet.likes / tweet.retweets);
\*   solo          no other request was in flight, or took a step, while it ran;
\*   fault         it ended because a store operation failed (action Fail);
\*   chain         it began right after the same call (same handler, actor and
\*                 argument) had run solo to the handler's last statement;
\*   was0, wasRev0 was and wasRev of that previous call;
\*   pre           the Tweet collection when a delete began;
\*   stamp         the createdAt a pending tweet.save() has put on its document
\*                 (0: no save called).
Idle ==
    [op |-> "none", pc |-> "idle", actor |-> NoUser, target |-> NoUser,
     tweet |-> NoTweet, content |-> <<>>, image |-> FALSE, replyTo |-> NoTweet,
     username |-> "", email |-> "",
     page |-> DefaultPage, limit |-> DefaultLimit,
     flag |-> FALSE, list |-> {}, resp |-> 0, users |-> {}, body |-> <<>>,
     wrote |-> FALSE, was |-> FALSE, wasRev |-> FALSE, solo |-> FALSE,
     fault |-> FALSE, chain |-> FALSE, was0 |-> FALSE, wasRev0 |-> FALSE,
     pre |-> <<>>, stamp |-> 0]

InFlight(x) == x.pc # "idle"

Free(r) == ~InFlight(reqs[r])

Quiet == \A q \in Slots : ~InFlight(reqs[q])

\* The answered request ran to its handler's last statement: it answered 200,
\* or 500 from an error that no store failure caused.
RanThrough(x) == x.resp \in {200, 500} /\ ~x.fault

\* A request that begins.
Begin(r, op, pc, actor, target, tweet) ==
    LET alone == \A q \in Slots \ {r} : ~InFlight(reqs[q])
        again == /\ alone
                 /\ last.op = op /\ last.actor = actor
                 /\ last.target = target /\ last.tweet = tweet
                 /\ RanThrough(last) /\ last.solo
    IN [Idle EXCEPT !.op = op, !.pc = pc, !.actor = actor,
                    !.target = target, !.tweet = tweet,
                    !.solo = alone, !.chain = again,
                    !.was0 = again /\ last.was,
                    !.wasRev0 = again /\ last.wasRev]

\* res.status(code).json(...): the handler has answered.
Respond(x, code) == [x EXCEPT !.pc = "done", !.resp = code, !.pre = <<>>]

Disturb(x) == IF InFlight(x) THEN [x EXCEPT !.solo = FALSE] ELSE x

\* What is remembered of an answered request: the call, the answer, and the
\* history that was kept beside it.
Summary(x) ==
    [op |-> x.op, actor |-> x.actor, target |-> x.target, tweet |-> x.tweet,
     page |-> x.page, limit |-> x.limit,
     resp |-> x.resp, users |-> x.users, body |-> x.body,
     wrote |-> x.wrote, was |-> x.was, wasRev |-> x.wasRev, solo |-> x.solo,
     fault |-> x.fault, chain |-> x.chain, was0 |-> x.was0, wasRev0 |-> x.wasRev0]

\* Request r moves to `new`; every other request in flight has been interleaved.
\* An answered request leaves its slot and is remembered in `last` until the
\* next request begins.
Step(r, new) ==
    /\ reqs' = [q \in Slots |-> IF q # r THEN Disturb(reqs[q])
                                ELSE IF new.pc = "done" THEN Idle ELSE new]
    /\ last' = IF new.pc = "done" THEN Summary(new)
               ELSE IF Free(r) THEN Summary(Idle)
               ELSE last

\* A step of a handler that does not touch the stored accounts: every handler
\* but the registration.
Advance(r, new) == Step(r, new) /\ UNCHANGED accounts

\* The authenticated user's document as the auth middleware loaded it for this
\* request (req.user): a fresh copy of the stored arrays.
ReqUserFollowing(a) == following[a]

(* --------------------- POST /users/:id/follow -------------------------- *)

\* The self-follow check left out.
IsSelfNever(target, actor) == FALSE

\* req.params.id === req.user.id.toString()
IsSelf(target, actor) == target = actor

\* currentUser.following.includes(req.params.id)
IsFollowing(actor, target) == Includes(following[actor], target)

\* The first update: $pull / $addToSet on the actor's following.
FollowActorUpdate(S, target, isFollowing) ==
    IF isFollowing THEN Pull(S, target) ELSE AddToSet(S, target)

\* The second update: $pull / $addToSet on the target's followers.
FollowTargetUpdate(S, actor, isFollowing) ==
    IF isFollowing THEN Pull(S, actor) ELSE AddToSet(S, actor)

FollowStart(r, a, t) ==
    /\ Free(r)
    /\ LET x == [Begin(r, "follow", "findTarget", a, t, NoTweet) EXCEPT
                    !.was = t \in Users /\ t \in following[a],
                    !.wasRev = t \in Users /\ a \in followers[t]]
       IN Advance(r, IF IsSelf(t, a) THEN Respond(x, 400) ELSE x)
    /\ overlap' = (overlap \/ (~IsSelf(t, a) /\
                     \E q \in Slots \ {r} :
                        /\ InFlight(reqs[q])
                        /\ reqs[q].op = "follow"
                        /\ reqs[q].actor = a
                        /\ reqs[q].target = t))
    /\ UNCHANGED <<following, followers, tweets, nextId>>

\* const userToFollow = await User.findById(req.params.id)
FollowFindTarget(r) ==
    /\ reqs[r].op = "follow" /\ reqs[r].pc = "findTarget"
    /\ Advance(r, IF reqs[r].target \notin Users
                  THEN Respond(reqs[r], 404)
                  ELSE [reqs[r] EXCEPT !.pc = "findCurrent"])
    /\ UNCHANGED <<following, followers, tweets, nextId, overlap>>

\* const currentUser = await User.findById(req.user.id); isFollowing = ...
FollowFindCurrent(r) ==
    /\ reqs[r].op = "follow" /\ reqs[r].pc = "findCurrent"
    /\ Advance(r, [reqs[r] EXCEPT
                      !.pc = "updateActor",
                      !.flag = IsFollowing(reqs[r].actor, reqs[r].target)])
    /\ UNCHANGED <<following, followers, tweets, nextId, overlap>>

\* await User.findByIdAndUpdate(req.user.id, {$pull|$addToSet: {following}})
FollowUpdateActor(r) ==
    /\ reqs[r].op = "follow" /\ reqs[r].pc = "updateActor"
    /\ following' = [following EXCEPT ![reqs[r].actor] =
                        FollowActorUpdate(@, reqs[r].target, reqs[r].flag)]
    /\ Advance(r, [reqs[r] EXCEPT
                      !.pc = "updateTarget",
                      !.wrote = @ \/ following' # following])
    /\ UNCHANGED <<followers, tweets, nextId, overlap>>

\* await User.findByIdAndUpdate(req.params.id, {$pull|$addToSet: {followers}})
FollowUpdateTarget(r) ==
    /\ reqs[r].op = "follow" /\ reqs[r].pc = "updateTarget"
    /\ followers' = [followers EXCEPT ![reqs[r].target] =
                        FollowTargetUpdate(@, reqs[r].actor, reqs[r].flag)]
    /\ Advance(r, Respond([reqs[r] EXCEPT !.wrote = @ \/ followers' # followers],
                          200))
    /\ UNCHANGED <<following, tweets, nextId, overlap>>

(* ------------- GET /users/:id/followers, /users/:id/following ----------- *)

ListFollowersStart(r, t) ==
    /\ Free(r)
    /\ Advance(r, Begin(r, "listFollowers", "find", NoUser, t, NoTweet))
    /\ UNCHANGED <<following, followers, tweets, nextId, overlap>>

\* await User.findById(id).select('followers').populate('followers', ...)
ListFollowersFind(r) ==
    /\ reqs[r].op = "listFollowers" /\ reqs[r].pc = "find"
    /\ Advance(r, IF reqs[r].target \notin Users
                  THEN Respond(reqs[r], 404)
                  ELSE Respond([reqs[r] EXCEPT !.users = followers[reqs[r].target]],
                               200))
    /\ UNCHANGED <<following, followers, tweets, nextId, overlap>>

ListFollowingStart(r, t) ==
    /\ Free(r)
    /\ Advance(r, Begin(r, "listFollowing", "find", NoUser, t, NoTweet))
    /\ UNCHANGED <<following, followers, tweets, nextId, overlap>>

\* await User.findById(id).select('following').populate('following', ...)
ListFollowingFind(r) ==
    /\ reqs[r].op = "listFollowing" /\ reqs[r].pc = "find"
    /\ Advance(r, IF reqs[r].target \notin Users
                  THEN Respond(reqs[r], 404)
                  ELSE Respond([reqs[r] EXCEPT !.users = following[reqs[r].target]],
                               200))
    /\ UNCHANGED <<following, followers, tweets, nextId, overlap>>

(* ------------- GET /users/:username, GET /users/suggested -------------- *)

\* if (req.headers.authorization) { try { decoded = jwt.verify(...); ... }
\* catch (err) { } }: the annotations of the try block are made when a
\* credential came with the request and jwt.verify returned; with `jwt` unbound
\* the call throws a ReferenceError, which the inner catch swallows.
\* viewer = NoUser stands for a request without a credential.
Annotates(bound, viewer) == viewer # NoUser /\ bound

\* The routes file of the users requires express, the two middlewares,
\* cloudinary and the two models, and no 'jsonwebtoken': the identifier `jwt`
\* in its handlers is bound to nothing.
UsersJwtBound == FALSE

\* The GET routes of one path segment, in the order they are registered.
UsersGetRoutes ==
    <<[path |-> "me", handler |-> "me"],
      [path |-> ":username", handler |-> "profile"],
      [path |-> "suggested", handler |-> "suggested"]>>

\* A route path matches a request path when it is a parameter or the same text.
RouteMatches(path, segment) == path = ":username" \/ path = segment

\* Express runs the first registered route that matches; these handlers answer
\* and never call next().
UsersGetRoute(segment) ==
    LET matching == {k \in 1 .. Len(UsersGetRoutes) :
                        RouteMatches(UsersGetRoutes[k].path, segment)}
        first == CHOOSE k \in matching : \A j \in matching : k <= j
    IN UsersGetRoutes[first].handler

\* User.findOne({ username }): every user's username is modelled as its id.
UserByUsername(username) == IF username \in Users THEN username ELSE NoUser

\* Tweet.countDocuments({ user: user._id, replyTo: { $exists: false } })
TweetCount(T, user) ==
    Cardinality({i \in DOMAIN T : T[i].user = user /\ T[i].replyTo = NoTweet})

\* .limit(5) of GET /suggested
SuggestedLimit == 5

\* { _id: { $ne: req.user.id, $nin: req.user.following } }
SuggestedFilter(viewer, list) == (Users \ {viewer}) \ list

\* GET /users/<segment>: the router picks the handler.
UsersGet(r, viewer, segment) ==
    /\ Free(r)
    /\ LET h == UsersGetRoute(segment)
       IN Advance(r, [Begin(r, h, IF h = "profile" THEN "findUser" ELSE "find",
                            viewer, segment, NoTweet)
                        EXCEPT !.list = IF viewer \in Users
                                        THEN ReqUserFollowing(viewer) ELSE {}])
    /\ UNCHANGED <<following, followers, tweets, nextId, overlap>>

\* const user = await User.findOne({ username: req.params.username })
ProfileFindUser(r) ==
    /\ reqs[r].op = "profile" /\ reqs[r].pc = "findUser"
    /\ Advance(r, IF UserByUsername(reqs[r].target) = NoUser
                  THEN Respond(reqs[r], 404)
                  ELSE [reqs[r] EXCEPT !.pc = "count"])
    /\ UNCHANGED <<following, followers, tweets, nextId, overlap>>

\* The profile as answered: { ...user, tweets: tweetCount, isFollowing }
ProfileBody(count, isFollowing) ==
    <<[tweets |-> count, isFollowing |-> isFollowing]>>

\* const tweetCount = await Tweet.countDocuments(...); let isFollowing = false;
\* with a credential, jwt.verify is called inside try/catch: when it throws,
\* isFollowing stays false and the profile is answered.
ProfileCount(r) ==
    /\ reqs[r].op = "profile" /\ reqs[r].pc = "count"
    /\ LET count == TweetCount(tweets, UserByUsername(reqs[r].target))
       IN Advance(r, IF Annotates(UsersJwtBound, reqs[r].actor)
                     THEN [reqs[r] EXCEPT !.pc = "findViewer",
                                          !.body = ProfileBody(count, FALSE)]
                     ELSE Respond([reqs[r] EXCEPT
                                      !.body = ProfileBody(count, FALSE)], 200))
    /\ UNCHANGED <<following, followers, tweets, nextId, overlap>>

\* const currentUser = await User.findById(decoded.id); isFollowing = ...
\* Reached only when jwt.verify returns, which it never does here.
ProfileFindViewer(r) ==
    /\ reqs[r].op = "profile" /\ reqs[r].pc = "findViewer"
    /\ Advance(r, Respond([reqs[r] EXCEPT
                             !.body = ProfileBody(
                                 reqs[r].body[1].tweets,
                                 Includes(following[reqs[r].actor],
                                          UserByUsername(reqs[r].target)))],
                          200))
    /\ UNCHANGED <<following, followers, tweets, nextId, overlap>>

\* const users = await User.find({...}).select(...).limit(5)
\* Reached only when the router picks the handler of /suggested, which it
\* never does: /:username is registered before it.
SuggestedFind(r) ==
    /\ reqs[r].op = "suggested" /\ reqs[r].pc = "find"
    /\ \E S \in SUBSET SuggestedFilter(reqs[r].actor, reqs[r].list) :
          /\ Cardinality(S) =
                IF Cardinality(SuggestedFilter(reqs[r].actor, reqs[r].list))
                      < SuggestedLimit
                THEN Cardinality(SuggestedFilter(reqs[r].actor, reqs[r].list))
                ELSE SuggestedLimit
          /\ Advance(r, Respond([reqs[r] EXCEPT !.users = S], 200))
    /\ UNCHANGED <<following, followers, tweets, nextId, overlap>>

(* ----------------------------- Tweet model ---------------------------- *)

\* Characters of a tweet's content: a letter and a blank.
Blank == " "

RECURSIVE TrimLeft(_)
TrimLeft(s) ==
    IF s # <<>> /\ Head(s) = Blank THEN TrimLeft(Tail(s)) ELSE s

RECURSIVE TrimRight(_)
TrimRight(s) ==
    IF s # <<>> /\ s[Len(s)] = Blank
    THEN TrimRight(SubSeq(s, 1, Len(s) - 1))
    ELSE s

\* content: { trim: true }: the setter applied when the document is built
Trim(s) == TrimRight(TrimLeft(s))

\* new Tweet({user, content, image, replyTo, retweetData}); a path that was not
\* given is NoTweet (references) or the empty content (undefined)
NewTweet(user, content, image, replyTo, retweetData) ==
    [user |-> user, content |-> Trim(content), image |-> image,
     likes |-> {}, retweets |-> {},
     retweetData |-> retweetData, replyTo |-> replyTo, createdAt |-> 0]

\* content not required.
ContentOptional(doc) == TRUE

\* content: { required: true }: undefined, null and '' are all rejected
ContentRequired(doc) == doc.content # <<>>

\* content: { maxlength: 280 }
ContentMaxLengthOk(doc) == Len(doc.content) <= ContentMaxLength

\* document.validate(), run by save()
Validates(doc) == ContentRequired(doc) /\ ContentMaxLengthOk(doc)

\* The collection without the documents whose ids are in S.
Remove(T, S) == [i \in DOMAIN T \ S |-> T[i]]

\* The collection with document d newly inserted under id.
Insert(T, id, d) == [i \in DOMAIN T \cup {id} |-> IF i = id THEN d ELSE T[i]]

\* Stored repost-wrappers of user u for original o.
Wrappers(T, u, o) == {i \in DOMAIN T : T[i].user = u /\ T[i].retweetData = o}

\* Stored replies to p.
Replies(T, p) == {i \in DOMAIN T : T[i].replyTo = p}

Min(S) == CHOOSE m \in S : \A n \in S : m <= n

Max(S) == CHOOSE m \in S : \A n \in S : m >= n

\* Date.now() when save() is called, kept as an order only: later than the
\* createdAt of every stored document and of every document whose save is
\* pending (and than every document's ever stored, nextId - 1 of them).
Now ==
    1 + Max({nextId - 1} \cup {tweets[i].createdAt : i \in DOMAIN tweets}
                         \cup {reqs[q].stamp : q \in Slots})

\* The latest instant explored: no request that may call save() begins later.
MaxStamp == MaxTweets + 1

\* tweet.save() is called: { timestamps: true } stamps createdAt, and the insert
\* is awaited.
CallSave(x) == [x EXCEPT !.pc = "save", !.stamp = Now]

\* The document as save() sends it to the store.
Stamped(doc, at) == [doc EXCEPT !.createdAt = at]

\* Tweet documents whose insertion is pending in some request.
PendingInserts ==
    Cardinality({q \in Slots : InFlight(reqs[q]) /\ reqs[q].op = "create"
                                /\ reqs[q].pc \in {"upload", "findParent", "save"}})

(* --------------------------- POST /tweets ------------------------------ *)

\* !content && !req.file
CreateRejected(content, hasFile) == content = <<>> /\ ~hasFile

\* Where the handler awaits next once the image (if any) is uploaded.
CreateAfterUpload(x) ==
    IF x.replyTo # NoTweet THEN [x EXCEPT !.pc = "findParent"] ELSE CallSave(x)

CreateStart(r, a, content, hasFile, replyTo) ==
    /\ Free(r)
    /\ nextId + PendingInserts <= MaxTweets
    /\ Now <= MaxStamp
    /\ LET x == [Begin(r, "create", "upload", a, NoUser, NoTweet) EXCEPT
                    !.content = content, !.replyTo = replyTo]
       IN Advance(r, IF CreateRejected(content, hasFile) THEN Respond(x, 400)
                     ELSE IF hasFile THEN x
                     ELSE CreateAfterUpload(x))
    /\ UNCHANGED <<following, followers, tweets, nextId, overlap>>

\* const result = await cloudinary.uploader.upload(...); imageUrl = result.secure_url
CreateUpload(r) ==
    /\ reqs[r].op = "create" /\ reqs[r].pc = "upload"
    /\ Advance(r, CreateAfterUpload([reqs[r] EXCEPT !.image = TRUE]))
    /\ UNCHANGED <<following, followers, tweets, nextId, overlap>>

\* const parentTweet = await Tweet.findById(replyTo)
CreateFindParent(r) ==
    /\ reqs[r].op = "create" /\ reqs[r].pc = "findParent"
    /\ Advance(r, IF ~Exists(reqs[r].replyTo)
                  THEN Respond(reqs[r], 404)
                  ELSE CallSave(reqs[r]))
    /\ UNCHANGED <<following, followers, tweets, nextId, overlap>>

\* const tweet = new Tweet(tweetData); await tweet.save(): the insert is applied
CreateSave(r) ==
    /\ reqs[r].op = "create" /\ reqs[r].pc = "save"
    /\ LET doc == NewTweet(reqs[r].actor, reqs[r].content, reqs[r].image,
                           reqs[r].replyTo, NoTweet)
       IN IF Validates(doc)
          THEN /\ tweets' = Insert(tweets, nextId, Stamped(doc, reqs[r].stamp))
               /\ nextId' = nextId + 1
               /\ Advance(r, [reqs[r] EXCEPT !.pc = "populateUser",
                                             !.tweet = nextId,
                                             !.wrote = TRUE])
          ELSE /\ Advance(r, Respond(reqs[r], 500))
               /\ UNCHANGED <<tweets, nextId>>
    /\ UNCHANGED <<following, followers, overlap>>

\* await tweet.populate('user', ...)
CreatePopulateUser(r) ==
    /\ reqs[r].op = "create" /\ reqs[r].pc = "populateUser"
    /\ Advance(r, IF reqs[r].replyTo # NoTweet
                  THEN [reqs[r] EXCEPT !.pc = "populateParent"]
                  ELSE Respond(reqs[r], 200))
    /\ UNCHANGED <<following, followers, tweets, nextId, overlap>>

\* await tweet.populate({path: 'replyTo', ...})
CreatePopulateParent(r) ==
    /\ reqs[r].op = "create" /\ reqs[r].pc = "populateParent"
    /\ Advance(r, Respond(reqs[r], 200))
    /\ UNCHANGED <<following, followers, tweets, nextId, overlap>>

(* -------------------------- DELETE /tweets/:id ------------------------- *)

\* The ownership check left out.
NotOwnerNever(doc, actor) == FALSE

\* tweet.user.toString() !== req.user.id
NotOwner(doc, actor) == doc.user # actor

\* The cascade taken one level further: replies, and replies to those.
DeleteManyFilterDeep(T, id) ==
    Replies(T, id) \cup {i \in DOMAIN T : T[i].replyTo \in Replies(T, id)}

\* Tweet.deleteMany({ replyTo: req.params.id })
DeleteManyFilter(T, id) == Replies(T, id)

DeleteStart(r, a, id) ==
    /\ Free(r)
    /\ Advance(r, [Begin(r, "delete", "find", a, NoUser, id) EXCEPT !.pre = tweets])
    /\ UNCHANGED <<following, followers, tweets, nextId, overlap>>

\* const tweet = await Tweet.findById(req.params.id)
DeleteFind(r) ==
    /\ reqs[r].op = "delete" /\ reqs[r].pc = "find"
    /\ Advance(r, IF ~Exists(reqs[r].tweet)
                  THEN Respond(reqs[r], 404)
                  ELSE IF NotOwner(tweets[reqs[r].tweet], reqs[r].actor)
                  THEN Respond(reqs[r], 401)
                  ELSE [reqs[r] EXCEPT !.pc = "deleteOne"])
    /\ UNCHANGED <<following, followers, tweets, nextId, overlap>>

\* await tweet.deleteOne()
DeleteOne(r) ==
    /\ reqs[r].op = "delete" /\ reqs[r].pc = "deleteOne"
    /\ tweets' = Remove(tweets, {reqs[r].tweet})
    /\ Advance(r, [reqs[r] EXCEPT !.pc = "deleteMany",
                                  !.wrote = @ \/ tweets' # tweets])
    /\ UNCHANGED <<following, followers, nextId, overlap>>

\* await Tweet.deleteMany({ replyTo: req.params.id })
DeleteMany(r) ==
    /\ reqs[r].op = "delete" /\ reqs[r].pc = "deleteMany"
    /\ tweets' = Remove(tweets, DeleteManyFilter(tweets, reqs[r].tweet))
    /\ Advance(r, Respond([reqs[r] EXCEPT !.wrote = @ \/ tweets' # tweets], 200))
    /\ UNCHANGED <<following, followers, nextId, overlap>>

(* ------------------------- POST /tweets/:id/like ----------------------- *)

\* The like written whatever was read.
LikeUpdateOpAlwaysAdds(S, actor, isLiked) == AddToSet(S, actor)

\* { $pull: { likes } } when already liked, { $addToSet: { likes } } otherwise
LikeUpdateOp(S, actor, isLiked) ==
    IF isLiked THEN Pull(S, actor) ELSE AddToSet(S, actor)

LikeStart(r, a, id) ==
    /\ Free(r)
    /\ Advance(r, [Begin(r, "like", "find", a, NoUser, id) EXCEPT
                      !.was = Exists(id) /\ a \in tweets[id].likes])
    /\ UNCHANGED <<following, followers, tweets, nextId, overlap>>

\* const tweet = await Tweet.findById(req.params.id); isLiked = ...
LikeFind(r) ==
    /\ reqs[r].op = "like" /\ reqs[r].pc = "find"
    /\ Advance(r, IF ~Exists(reqs[r].tweet)
                  THEN Respond(reqs[r], 404)
                  ELSE [reqs[r] EXCEPT
                           !.pc = "update",
                           !.flag = Includes(tweets[reqs[r].tweet].likes,
                                             reqs[r].actor)])
    /\ UNCHANGED <<following, followers, tweets, nextId, overlap>>

\* await Tweet.findByIdAndUpdate(req.params.id, ...): no document, no update
LikeUpdate(r) ==
    /\ reqs[r].op = "like" /\ reqs[r].pc = "update"
    /\ tweets' = IF Exists(reqs[r].tweet)
                 THEN [tweets EXCEPT ![reqs[r].tweet].likes =
                          LikeUpdateOp(@, reqs[r].actor, reqs[r].flag)]
                 ELSE tweets
    /\ Advance(r, Respond([reqs[r] EXCEPT !.wrote = @ \/ tweets' # tweets], 200))
    /\ UNCHANGED <<following, followers, nextId, overlap>>

(* ------------------------ POST /tweets/:id/retweet ---------------------- *)

\* The membership written whatever was read.
RetweetUpdateOpAlwaysAdds(S, actor, isRetweeted) == AddToSet(S, actor)

\* { $pull: { retweets } } when already retweeted, { $addToSet } otherwise
RetweetUpdateOp(S, actor, isRetweeted) ==
    IF isRetweeted THEN Pull(S, actor) ELSE AddToSet(S, actor)

\* new Tweet({ user: req.user.id, retweetData: req.params.id })
RetweetWrapper(actor, id) == NewTweet(actor, <<>>, FALSE, NoTweet, id)

RetweetStart(r, a, id) ==
    /\ Free(r)
    /\ Now <= MaxStamp
    /\ Advance(r, [Begin(r, "retweet", "find", a, NoUser, id) EXCEPT
                      !.was = Exists(id) /\ a \in tweets[id].retweets])
    /\ UNCHANGED <<following, followers, tweets, nextId, overlap>>

\* const tweet = await Tweet.findById(req.params.id); isRetweeted = ...
RetweetFind(r) ==
    /\ reqs[r].op = "retweet" /\ reqs[r].pc = "find"
    /\ Advance(r, IF ~Exists(reqs[r].tweet)
                  THEN Respond(reqs[r], 404)
                  ELSE [reqs[r] EXCEPT
                           !.pc = "update",
                           !.flag = Includes(tweets[reqs[r].tweet].retweets,
                                             reqs[r].actor)])
    /\ UNCHANGED <<following, followers, tweets, nextId, overlap>>

\* await Tweet.findByIdAndUpdate(req.params.id, {$pull|$addToSet: {retweets}})
RetweetUpdate(r) ==
    /\ reqs[r].op = "retweet" /\ reqs[r].pc = "update"
    /\ tweets' = IF Exists(reqs[r].tweet)
                 THEN [tweets EXCEPT ![reqs[r].tweet].retweets =
                          RetweetUpdateOp(@, reqs[r].actor, reqs[r].flag)]
                 ELSE tweets
    /\ LET x == [reqs[r] EXCEPT !.wrote = @ \/ tweets' # tweets]
       IN Advance(r, IF reqs[r].flag THEN [x EXCEPT !.pc = "deleteWrapper"]
                     ELSE CallSave(x))
    /\ UNCHANGED <<following, followers, nextId, overlap>>

\* await Tweet.deleteOne({ user: req.user.id, retweetData: req.params.id }):
\* the first match in insertion order, if there is one
RetweetDeleteWrapper(r) ==
    /\ reqs[r].op = "retweet" /\ reqs[r].pc = "deleteWrapper"
    /\ LET found == Wrappers(tweets, reqs[r].actor, reqs[r].tweet)
       IN tweets' = IF found = {} THEN tweets ELSE Remove(tweets, {Min(found)})
    /\ Advance(r, Respond([reqs[r] EXCEPT !.wrote = @ \/ tweets' # tweets], 200))
    /\ UNCHANGED <<following, followers, nextId, overlap>>

\* await retweet.save(): validation runs first and its error is caught (500)
RetweetSave(r) ==
    /\ reqs[r].op = "retweet" /\ reqs[r].pc = "save"
    /\ LET doc == RetweetWrapper(reqs[r].actor, reqs[r].tweet)
       IN IF Validates(doc)
          THEN /\ nextId <= MaxTweets
               /\ tweets' = Insert(tweets, nextId, Stamped(doc, reqs[r].stamp))
               /\ nextId' = nextId + 1
               /\ Advance(r, Respond([reqs[r] EXCEPT !.wrote = TRUE], 200))
          ELSE /\ Advance(r, Respond(reqs[r], 500))
               /\ UNCHANGED <<tweets, nextId>>
    /\ UNCHANGED <<following, followers, overlap>>

(* ----------------------- GET /tweets (timeline) ------------------------ *)

\* The document of S with the latest createdAt.
Latest(T, S) == CHOOSE i \in S : \A j \in S : T[i].createdAt >= T[j].createdAt

RECURSIVE SortDesc(_, _)
\* .sort({ createdAt: -1 }) of the documents of T whose ids are in S
SortDesc(T, S) ==
    IF S = {} THEN <<>>
    ELSE <<Latest(T, S)>> \o SortDesc(T, S \ {Latest(T, S)})

\* .skip(skip).limit(limit)
SkipLimit(s, skip, limit) ==
    SubSeq(s, skip + 1, IF skip + limit < Len(s) THEN skip + limit ELSE Len(s))

\* parseInt(req.query.x) || dflt: a parameter that is absent or not a number
\* parses to NaN, and NaN and 0 are both falsy (NoParam stands for all three)
NoParam == 0
ParseIntOr(q, dflt) == IF q = NoParam THEN dflt ELSE q

\* The timeline's filter without its exclusion of replies.
TimelineFilterWithReplies(T, list) == {i \in DOMAIN T : T[i].user \in list}

\* Tweet.find({ user: { $in: following }, replyTo: { $exists: false } })
TimelineFilter(T, list) ==
    {i \in DOMAIN T : T[i].user \in list /\ T[i].replyTo = NoTweet}

\* The annotation with isLiked left false.
WithUserInteractionUnliked(T, ids, viewer) ==
    [k \in 1 .. Len(ids) |->
        [id |-> ids[k],
         isLiked |-> FALSE,
         isRetweeted |-> Includes(T[ids[k]].retweets, viewer)]]

\* tweets.map(tweet => ({...tweet.toObject(), isLiked, isRetweeted}))
WithUserInteraction(T, ids, viewer) ==
    [k \in 1 .. Len(ids) |->
        [id |-> ids[k],
         isLiked |-> Includes(T[ids[k]].likes, viewer),
         isRetweeted |-> Includes(T[ids[k]].retweets, viewer)]]

\* The timeline with the pushed array saved back to the viewer's document.
TimelineStartSaved(r, a, page, limit) ==
    /\ Free(r)
    /\ following' = [following EXCEPT ![a] = AddToSet(@, a)]
    /\ Advance(r, [Begin(r, "timeline", "find", a, NoUser, NoTweet) EXCEPT
                      !.page = page, !.limit = limit,
                      !.list = AddToSet(ReqUserFollowing(a), a)])
    /\ UNCHANGED <<followers, tweets, nextId, overlap>>

\* following = req.user.following; following.push(req.user.id): the push is on
\* the request's own copy of the document, which is never saved
TimelineStart(r, a, page, limit) ==
    /\ Free(r)
    /\ Advance(r, [Begin(r, "timeline", "find", a, NoUser, NoTweet) EXCEPT
                      !.page = page, !.limit = limit,
                      !.list = AddToSet(ReqUserFollowing(a), a)])
    /\ UNCHANGED <<following, followers, tweets, nextId, overlap>>

\* const tweets = await Tweet.find(...).sort(...).skip(skip).limit(limit)
TimelineFind(r) ==
    /\ reqs[r].op = "timeline" /\ reqs[r].pc = "find"
    /\ LET skip == (reqs[r].page - 1) * reqs[r].limit
           ids == SkipLimit(SortDesc(tweets, TimelineFilter(tweets, reqs[r].list)),
                            skip, reqs[r].limit)
       IN Advance(r, Respond([reqs[r] EXCEPT
                                 !.body = WithUserInteraction(tweets, ids,
                                                              reqs[r].actor)],
                             200))
    /\ UNCHANGED <<following, followers, tweets, nextId, overlap>>

(* ------------------------- public reads of tweets ----------------------- *)

\* The routes file of the tweets requires express, the two middlewares,
\* cloudinary and the two models, and no 'jsonwebtoken': the identifier `jwt`
\* in its handlers is bound to nothing.
TweetsJwtBound == FALSE

\* The documents as found, with no isLiked / isRetweeted fields.
AsFound(ids) == [k \in 1 .. Len(ids) |-> [id |-> ids[k]]]

\* let xWithUserInteraction = x; if (...) { xWithUserInteraction = x.map(...) }
ListWithUserInteraction(bound, T, ids, viewer) ==
    IF Annotates(bound, viewer) THEN WithUserInteraction(T, ids, viewer)
    ELSE AsFound(ids)

CommentsStart(r, viewer, id) ==
    /\ Free(r)
    /\ Advance(r, Begin(r, "comments", "find", viewer, NoUser, id))
    /\ UNCHANGED <<following, followers, tweets, nextId, overlap>>

\* const comments = await Tweet.find({ replyTo: req.params.id }).sort(...)
CommentsFind(r) ==
    /\ reqs[r].op = "comments" /\ reqs[r].pc = "find"
    /\ LET ids == SortDesc(tweets, Replies(tweets, reqs[r].tweet))
       IN Advance(r, Respond([reqs[r] EXCEPT
                                 !.body = ListWithUserInteraction(
                                             TweetsJwtBound, tweets, ids,
                                             reqs[r].actor)],
                             200))
    /\ UNCHANGED <<following, followers, tweets, nextId, overlap>>

\* let isLiked = false; let isRetweeted = false; (GET /:id)
Unflagged(ids) ==
    [k \in 1 .. Len(ids) |->
        [id |-> ids[k], isLiked |-> FALSE, isRetweeted |-> FALSE]]

GetTweetStart(r, viewer, id) ==
    /\ Free(r)
    /\ Advance(r, Begin(r, "getTweet", "find", viewer, NoUser, id))
    /\ UNCHANGED <<following, followers, tweets, nextId, overlap>>

\* const tweet = await Tweet.findById(req.params.id).populate(...)
GetTweetFind(r) ==
    /\ reqs[r].op = "getTweet" /\ reqs[r].pc = "find"
    /\ Advance(r, IF ~Exists(reqs[r].tweet)
                  THEN Respond(reqs[r], 404)
                  ELSE Respond([reqs[r] EXCEPT
                          !.body = IF Annotates(TweetsJwtBound, reqs[r].actor)
                                   THEN WithUserInteraction(
                                           tweets, <<reqs[r].tweet>>,
                                           reqs[r].actor)
                                   ELSE Unflagged(<<reqs[r].tweet>>)],
                          200))
    /\ UNCHANGED <<following, followers, tweets, nextId, overlap>>

\* Tweet.find({ user: req.params.userId, replyTo: { $exists: false } })
UserTweetsFilter(T, userId) ==
    {i \in DOMAIN T : T[i].user = userId /\ T[i].replyTo = NoTweet}

UserTweetsStart(r, viewer, userId) ==
    /\ Free(r)
    /\ Advance(r, Begin(r, "userTweets", "find", viewer, userId, NoTweet))
    /\ UNCHANGED <<following, followers, tweets, nextId, overlap>>

\* const tweets = await Tweet.find({...}).populate(...).sort({ createdAt: -1 })
UserTweetsFind(r) ==
    /\ reqs[r].op = "userTweets" /\ reqs[r].pc = "find"
    /\ LET ids == SortDesc(tweets, UserTweetsFilter(tweets, reqs[r].target))
       IN Advance(r, Respond([reqs[r] EXCEPT
                                 !.body = ListWithUserInteraction(
                                             TweetsJwtBound, tweets, ids,
                                             reqs[r].actor)],
                             200))
    /\ UNCHANGED <<following, followers, tweets, nextId, overlap>>

(* --------------------------- GET /search/tweets ------------------------- *)

\* The routes file of the search requires 'jsonwebtoken'.
SearchJwtBound == TRUE

\* .limit(20)
SearchLimit == 20

\* $options: 'i'
Lower(c) == IF c = "A" THEN "a" ELSE IF c = "B" THEN "b" ELSE c

\* One character of a $regex pattern against one character of the content:
\* "." stands for any character, a letter for itself in either case. (The
\* patterns here are made of letters and "."; the other operators of the
\* regular-expression syntax are not modelled.)
RegexCharMatches(p, c) == p = "." \/ Lower(p) = Lower(c)

\* { content: { $regex: query, $options: 'i' } }: the pattern matches anywhere
RegexMatches(content, query) ==
    \E pos \in 1 .. Len(content) - Len(query) + 1 :
        \A k \in 1 .. Len(query) :
            RegexCharMatches(query[k], content[pos + k - 1])

\* Tweet.find({ content: { $regex: query, ... }, replyTo: { $exists: false } })
SearchFilter(T, query) ==
    {i \in DOMAIN T : RegexMatches(T[i].content, query) /\ T[i].replyTo = NoTweet}

\* const query = req.query.q; if (!query) return 400
SearchStart(r, viewer, query) ==
    /\ Free(r)
    /\ LET x == [Begin(r, "search", "find", viewer, NoUser, NoTweet) EXCEPT
                    !.content = query]
       IN Advance(r, IF query = <<>> THEN Respond(x, 400) ELSE x)
    /\ UNCHANGED <<following, followers, tweets, nextId, overlap>>

\* const tweets = await Tweet.find({...}).sort({ createdAt: -1 }).limit(20)
SearchFind(r) ==
    /\ reqs[r].op = "search" /\ reqs[r].pc = "find"
    /\ LET ids == SkipLimit(SortDesc(tweets, SearchFilter(tweets, reqs[r].content)),
                            0, SearchLimit)
       IN Advance(r, Respond([reqs[r] EXCEPT
                                 !.body = ListWithUserInteraction(
                                             SearchJwtBound, tweets, ids,
                                             reqs[r].actor)],
                             200))
    /\ UNCHANGED <<following, followers, tweets, nextId, overlap>>

(* --------------------------- POST /auth/register ------------------------ *)

\* The unique index of the User collection, `username (unique)`: an insert
\* whose username is that of a stored document is rejected with a duplicate-key
\* error. Nothing makes the email unique in the store.
IndexRejects(A, doc) ==
    \E i \in 1 .. Len(A) : A[i].username = doc.username

\* User.findOne({ $or: [{ email }, { username }] }) finds a document
RegisterFound(A, username, email) ==
    \E i \in 1 .. Len(A) : A[i].email = email \/ A[i].username = username

\* validationResult(req): the body passed the express-validator checks or not.
\* secret: process.env.JWT_SECRET is set, kept in flag.
RegisterStart(r, username, email, wellFormed, secret) ==
    /\ Free(r)
    /\ Len(accounts) + Cardinality({q \in Slots : reqs[q].op = "register"})
          < MaxAccounts
    /\ LET x == [Begin(r, "register", "findOne", NoUser, NoUser, NoTweet) EXCEPT
                    !.username = username, !.email = email, !.flag = secret]
       IN Step(r, IF ~wellFormed THEN Respond(x, 400) ELSE x)
    /\ UNCHANGED <<following, followers, tweets, nextId, overlap, accounts>>

\* let user = await User.findOne(...); if (user) return 400
RegisterFindOne(r) ==
    /\ reqs[r].op = "register" /\ reqs[r].pc = "findOne"
    /\ Step(r, IF RegisterFound(accounts, reqs[r].username, reqs[r].email)
               THEN Respond(reqs[r], 400)
               ELSE [reqs[r] EXCEPT !.pc = "save"])
    /\ UNCHANGED <<following, followers, tweets, nextId, overlap, accounts>>

\* user = new User({...}); await user.save(); jwt.sign(payload, secret, ..., cb)
\* A rejected save is caught: res.status(500). After the save, jwt.sign without
\* a secret calls back with an error at once, `if (err) throw err` is caught:
\* res.status(500), the user stored; with a secret the handler returns and the
\* callback is pending.
RegisterSave(r) ==
    /\ reqs[r].op = "register" /\ reqs[r].pc = "save"
    /\ LET doc == [username |-> reqs[r].username, email |-> reqs[r].email]
           x == [reqs[r] EXCEPT !.wrote = TRUE]
       IN IF IndexRejects(accounts, doc)
          THEN /\ Step(r, Respond(reqs[r], 500))
               /\ UNCHANGED accounts
          ELSE /\ accounts' = Append(accounts, doc)
               /\ Step(r, IF reqs[r].flag THEN [x EXCEPT !.pc = "sign"]
                          ELSE Respond(x, 500))
    /\ UNCHANGED <<following, followers, tweets, nextId, overlap>>

\* (err, token) => { ...; res.json({ token, user }) }
RegisterSign(r) ==
    /\ reqs[r].op = "register" /\ reqs[r].pc = "sign"
    /\ Step(r, Respond(reqs[r], 200))
    /\ UNCHANGED <<following, followers, tweets, nextId, overlap, accounts>>

(* ------------------------- a store operation fails ---------------------- *)

\* The awaited promise rejects: catch (error) { res.status(500)... }
\* A request whose handler has returned (the pending jwt.sign callback) awaits
\* nothing.
Fail(r) ==
    /\ InFlight(reqs[r]) /\ reqs[r].pc # "sign"
    /\ Advance(r, Respond([reqs[r] EXCEPT !.fault = TRUE], 500))
    /\ UNCHANGED <<following, followers, tweets, nextId, overlap>>

(* --------------------------- specifications ---------------------------- *)

\* Inputs the requests are drawn from.
UserTargets == Users \cup {NoUser}
TweetTargets == TweetIds
\* req.body.content with req.file (an image attached or not).
Uploads ==
    {[content |-> <<>>, file |-> FALSE], [content |-> <<>>, file |-> TRUE],
     [content |-> <<Blank>>, file |-> FALSE], [content |-> <<"a">>, file |-> FALSE]}
ReplyTargets == TweetIds \cup {NoTweet}

Init ==
    /\ following = [u \in Users |-> {}]
    /\ followers = [u \in Users |-> {}]
    /\ tweets = <<>>
    /\ nextId = 1
    /\ reqs = [r \in Slots |-> Idle]
    /\ overlap = FALSE
    /\ accounts = <<>>
    /\ last = Summary(Idle)

\* The follow graph: its one writer and its readers, two requests at a time.
NextGraph ==
    \E r \in Slots :
        \/ \E a \in Users, t \in UserTargets : FollowStart(r, a, t)
        \/ FollowFindTarget(r)
        \/ FollowFindCurrent(r)
        \/ FollowUpdateActor(r)
        \/ FollowUpdateTarget(r)
        \/ \E t \in UserTargets : ListFollowersStart(r, t)
        \/ ListFollowersFind(r)
        \/ \E t \in UserTargets : ListFollowingStart(r, t)
        \/ ListFollowingFind(r)
        \/ \E a \in Users : TimelineStart(r, a, DefaultPage, DefaultLimit)
        \/ TimelineFind(r)
        \/ Fail(r)

\* Posts, reposts and deletion, one request at a time.
NextReposts ==
    \E r \in OneSlot :
        \/ \E a \in Users, u \in Uploads :
              CreateStart(r, a, u.content, u.file, NoTweet)
        \/ CreateUpload(r)
        \/ CreateSave(r)
        \/ CreatePopulateUser(r)
        \/ \E a \in Users, id \in TweetTargets : DeleteStart(r, a, id)
        \/ DeleteFind(r)
        \/ DeleteOne(r)
        \/ DeleteMany(r)
        \/ \E a \in Users, id \in TweetTargets : RetweetStart(r, a, id)
        \/ RetweetFind(r)
        \/ RetweetUpdate(r)
        \/ RetweetDeleteWrapper(r)
        \/ RetweetSave(r)
        \/ Fail(r)

\* Posts, replies and deletion, one request at a time.
NextReplies ==
    \E r \in OneSlot :
        \/ \E a \in Users, u \in Uploads, p \in ReplyTargets :
              CreateStart(r, a, u.content, u.file, p)
        \/ CreateUpload(r)
        \/ CreateFindParent(r)
        \/ CreateSave(r)
        \/ CreatePopulateUser(r)
        \/ CreatePopulateParent(r)
        \/ \E a \in Users, id \in TweetTargets : DeleteStart(r, a, id)
        \/ DeleteFind(r)
        \/ DeleteOne(r)
        \/ DeleteMany(r)
        \/ Fail(r)

\* Posts and likes, one request at a time.
NextLikes ==
    \E r \in OneSlot :
        \/ \E a \in Users, u \in Uploads :
              CreateStart(r, a, u.content, u.file, NoTweet)
        \/ CreateUpload(r)
        \/ CreateSave(r)
        \/ CreatePopulateUser(r)
        \/ \E a \in Users, id \in TweetTargets : LikeStart(r, a, id)
        \/ LikeFind(r)
        \/ LikeUpdate(r)
        \/ Fail(r)

\* req.query.page and req.query.limit of a timeline request.
PageParams == {NoParam, 1, 2}
LimitParams == {NoParam, 1, 2}

\* The user who writes the posts where one author is enough, and the others.
Authors == {"u1"}
Readers == Users \ Authors

\* The timeline over posts and replies of every user and the follows of the
\* readers, one request at a time.
NextTimeline ==
    \E r \in OneSlot :
        \/ \E a \in Users, p \in ReplyTargets :
              CreateStart(r, a, <<"a">>, FALSE, p)
        \/ CreateFindParent(r)
        \/ CreateSave(r)
        \/ CreatePopulateUser(r)
        \/ CreatePopulateParent(r)
        \/ \E a \in Readers, t \in UserTargets : FollowStart(r, a, t)
        \/ FollowFindTarget(r)
        \/ FollowFindCurrent(r)
        \/ FollowUpdateActor(r)
        \/ FollowUpdateTarget(r)
        \/ \E a \in Users, qp \in PageParams, ql \in LimitParams :
              TimelineStart(r, a, ParseIntOr(qp, DefaultPage),
                            ParseIntOr(ql, DefaultLimit))
        \/ TimelineFind(r)
        \/ Fail(r)

\* Who a public read is made by: a user with a valid credential, or nobody.
Viewers == Users \cup {NoUser}

\* Posts of one author, follows and likes of the readers, the timeline and the
\* replies of a post, one request at a time.
NextFeed ==
    \E r \in OneSlot :
        \/ \E a \in Authors, p \in ReplyTargets :
              CreateStart(r, a, <<"a">>, FALSE, p)
        \/ CreateFindParent(r)
        \/ CreateSave(r)
        \/ CreatePopulateUser(r)
        \/ CreatePopulateParent(r)
        \/ \E a \in Readers, t \in UserTargets : FollowStart(r, a, t)
        \/ FollowFindTarget(r)
        \/ FollowFindCurrent(r)
        \/ FollowUpdateActor(r)
        \/ FollowUpdateTarget(r)
        \/ \E a \in Readers, id \in TweetTargets : LikeStart(r, a, id)
        \/ LikeFind(r)
        \/ LikeUpdate(r)
        \/ \E a \in Users : TimelineStart(r, a, DefaultPage, DefaultLimit)
        \/ TimelineFind(r)
        \/ \E v \in Viewers, id \in TweetTargets : CommentsStart(r, v, id)
        \/ CommentsFind(r)
        \/ Fail(r)

\* Posts and replies of one author, likes and the public reads of posts, one
\* request at a time.
NextReads ==
    \E r \in OneSlot :
        \/ \E a \in Authors, p \in ReplyTargets :
              CreateStart(r, a, <<"a">>, FALSE, p)
        \/ CreateFindParent(r)
        \/ CreateSave(r)
        \/ CreatePopulateUser(r)
        \/ CreatePopulateParent(r)
        \/ \E a \in Users, id \in TweetTargets : LikeStart(r, a, id)
        \/ LikeFind(r)
        \/ LikeUpdate(r)
        \/ \E v \in Viewers, id \in TweetTargets : GetTweetStart(r, v, id)
        \/ GetTweetFind(r)
        \/ \E v \in Viewers, id \in TweetTargets : CommentsStart(r, v, id)
        \/ CommentsFind(r)
        \/ \E v \in Viewers, u \in UserTargets : UserTweetsStart(r, v, u)
        \/ UserTweetsFind(r)
        \/ Fail(r)

\* One-segment paths of GET /users/<segment> requests.
Segments == Users \cup {NoUser, "suggested"}

\* Posts, replies, follows and the profile page, one request at a time.
NextProfile ==
    \E r \in OneSlot :
        \/ \E a \in Users, p \in ReplyTargets :
              CreateStart(r, a, <<"a">>, FALSE, p)
        \/ CreateFindParent(r)
        \/ CreateSave(r)
        \/ CreatePopulateUser(r)
        \/ CreatePopulateParent(r)
        \/ \E a \in Users, t \in UserTargets : FollowStart(r, a, t)
        \/ FollowFindTarget(r)
        \/ FollowFindCurrent(r)
        \/ FollowUpdateActor(r)
        \/ FollowUpdateTarget(r)
        \/ \E v \in Viewers, g \in Segments : UsersGet(r, v, g)
        \/ ProfileFindUser(r)
        \/ ProfileCount(r)
        \/ Fail(r)

\* Posts of one author, reposts and the posts of a user, one request at a time
\* and every store operation succeeding.
NextRepostReads ==
    \E r \in OneSlot :
        \/ \E a \in Authors : CreateStart(r, a, <<"a">>, FALSE, NoTweet)
        \/ CreateSave(r)
        \/ CreatePopulateUser(r)
        \/ \E a \in Users, id \in TweetTargets : RetweetStart(r, a, id)
        \/ RetweetFind(r)
        \/ RetweetUpdate(r)
        \/ RetweetDeleteWrapper(r)
        \/ RetweetSave(r)
        \/ \E v \in Viewers, u \in UserTargets : UserTweetsStart(r, v, u)
        \/ UserTweetsFind(r)

\* req.body.content of the posts that are searched, and req.query.q.
SearchContents == {<<"a">>, <<"b">>, <<"a", "b">>}
Queries == {<<>>, <<"a">>, <<"A">>, <<"b", "a">>, <<".">>}

\* Posts and replies of one author and the search, one request at a time.
NextSearch ==
    \E r \in OneSlot :
        \/ \E a \in Authors, c \in SearchContents, p \in ReplyTargets :
              CreateStart(r, a, c, FALSE, p)
        \/ CreateFindParent(r)
        \/ CreateSave(r)
        \/ CreatePopulateUser(r)
        \/ CreatePopulateParent(r)
        \/ \E v \in Viewers, q \in Queries : SearchStart(r, v, q)
        \/ SearchFind(r)
        \/ Fail(r)

\* req.body of a register request.
Usernames == {"n1", "n2"}
Emails == {"e1", "e2"}

\* Registrations, two requests at a time.
NextRegister ==
    \E r \in Slots :
        \/ \E n \in Usernames, e \in Emails, ok \in BOOLEAN, secret \in BOOLEAN :
              RegisterStart(r, n, e, ok, secret)
        \/ RegisterFindOne(r)
        \/ RegisterSave(r)
        \/ RegisterSign(r)
        \/ Fail(r)

\* Follow calls, two requests at a time, every store operation succeeding.
NextFollowRace ==
    \E r \in Slots :
        \/ \E a \in Users, t \in UserTargets : FollowStart(r, a, t)
        \/ FollowFindTarget(r)
        \/ FollowFindCurrent(r)
        \/ FollowUpdateActor(r)
        \/ FollowUpdateTarget(r)

\* Posts of the authors and repost toggles of the readers, two requests at a
\* time, every store operation succeeding.
NextRepostRace ==
    \E r \in Slots :
        \/ \E a \in Authors : CreateStart(r, a, <<"a">>, FALSE, NoTweet)
        \/ CreateSave(r)
        \/ CreatePopulateUser(r)
        \/ \E a \in Readers, id \in TweetTargets : RetweetStart(r, a, id)
        \/ RetweetFind(r)
        \/ RetweetUpdate(r)
        \/ RetweetDeleteWrapper(r)
        \/ RetweetSave(r)

\* Posts, replies and deletions of the authors, two requests at a time, every
\* store operation succeeding.
NextReplyRace ==
    \E r \in Slots :
        \/ \E a \in Authors, p \in ReplyTargets :
              CreateStart(r, a, <<"a">>, FALSE, p)
        \/ CreateFindParent(r)
        \/ CreateSave(r)
        \/ CreatePopulateUser(r)
        \/ CreatePopulateParent(r)
        \/ \E a \in Authors, id \in TweetTargets : DeleteStart(r, a, id)
        \/ DeleteFind(r)
        \/ DeleteOne(r)
        \/ DeleteMany(r)

Next == NextGraph \/ NextReposts \/ NextReplies \/ NextLikes \/ NextTimeline
        \/ NextFeed \/ NextReads \/ NextProfile
        \/ NextRepostReads \/ NextSearch \/ NextRegister
        \/ NextFollowRace \/ NextRepostRace \/ NextReplyRace

SpecGraph == Init /\ [][NextGraph]_vars

SpecReposts == Init /\ [][NextReposts]_vars

SpecReplies == Init /\ [][NextReplies]_vars

SpecLikes == Init /\ [][NextLikes]_vars

SpecTimeline == Init /\ [][NextTimeline]_vars

SpecFeed == Init /\ [][NextFeed]_vars

SpecReads == Init /\ [][NextReads]_vars

SpecProfile == Init /\ [][NextProfile]_vars

SpecRepostReads == Init /\ [][NextRepostReads]_vars

SpecSearch == Init /\ [][NextSearch]_vars

SpecRegister == Init /\ [][NextRegister]_vars

SpecFollowRace == Init /\ [][NextFollowRace]_vars

SpecRepostRace == Init /\ [][NextRepostRace]_vars

SpecReplyRace == Init /\ [][NextReplyRace]_vars

Spec == Init /\ [][Next]_vars

(* ------------------------- the follow graph: claims --------------------- *)

\* B is in A.following exactly when A is in B.followers.
Symmetric ==
    \A a \in Users, b \in Users : (b \in following[a]) <=> (a \in followers[b])

\* A request that reads an edge set from the store is about to be served.
ReaderWaiting ==
    \E r \in Slots : /\ reqs[r].op \in {"listFollowers", "listFollowing"}
                     /\ reqs[r].pc = "find"

\* C1: once every follow call has been answered, and no two follow calls on the
\* same (actor, target) pair were ever in flight together, the follow graph is
\* symmetric: B is in A.following if and only if A is in B.followers.
C1_SymmetricAfterCalls == (Quiet /\ ~overlap) => Symmetric

\* C2: a follow call changes both sides of an edge as one unit: the store a
\* reader is served from, and the store left behind by a follow call that a
\* store failure ended, never hold one side of an edge without the other.
C2_EdgeAtomic ==
    (\/ ReaderWaiting
     \/ (Quiet /\ last.op = "follow" /\ last.fault)) => Symmetric

\* C6: two follow calls of A on B, run one right after the other with nothing
\* else in flight and both answered 200, leave B's membership of A.following
\* and A's membership of B.followers as they were before the first call.
C6_TwiceIsIdentity ==
    (/\ last.op = "follow" /\ last.resp = 200
     /\ last.solo /\ last.chain)
    => /\ (last.target \in following[last.actor]) = last.was0
       /\ (last.actor \in followers[last.target]) = last.wasRev0

\* C7: a follow call whose target is its own actor is answered 400 before any
\* store operation: it is never in flight, and it changes no edge set.
C7_SelfFollowRejected ==
    /\ \A r \in Slots : reqs[r].op = "follow" => reqs[r].actor # reqs[r].target
    /\ (last.op = "follow" /\ last.actor = last.target)
          => (last.resp = 400 /\ ~last.wrote /\ ~last.fault)

\* C7 witness: a self-follow has just been answered 400 while the graph holds
\* an edge.
C7_Witness ==
    /\ last.op = "follow" /\ last.actor = last.target /\ last.resp = 400
    /\ \E u \in Users : following[u] # {} /\ followers[u] # {}

\* C8: no user is in their own stored following or followers set, whatever
\* follow calls and timeline reads have run.
C8_NoSelfFollow ==
    \A u \in Users : u \notin following[u] /\ u \notin followers[u]

\* C8 witness: a timeline request holds its local list with the viewer's own id
\* pushed onto it, while the viewer follows somebody and is followed.
C8_Witness ==
    \E r \in Slots :
        /\ reqs[r].op = "timeline"
        /\ reqs[r].actor \in reqs[r].list
        /\ following[reqs[r].actor] # {}
        /\ followers[reqs[r].actor] # {}

(* ----------------------- the Tweet collection: claims ------------------- *)

\* The request answered last was a repost toggle of an existing post that ran
\* solo to the handler's last statement.
RepostRan == last.op = "retweet" /\ last.solo /\ RanThrough(last)

\* C3: after a repost toggle of U on an existing post P that U had not
\* reposted, exactly one post has user = U and retweetData = P, and U is in
\* P.retweets; after the toggle that follows it, no such post exists and U is
\* not in P.retweets.
C3_RepostToggle ==
    (RepostRan /\ Exists(last.tweet)) =>
        /\ ~last.was =>
              /\ Cardinality(Wrappers(tweets, last.actor, last.tweet)) = 1
              /\ last.actor \in tweets[last.tweet].retweets
        /\ (last.chain /\ ~last.was0) =>
              /\ Wrappers(tweets, last.actor, last.tweet) = {}
              /\ last.actor \notin tweets[last.tweet].retweets

\* C4: with no request in flight and no store failure in the last request, a
\* repost-wrapper of user U for a stored post O exists exactly when U is in
\* O.retweets.
C4_WrapperIffMember ==
    (Quiet /\ ~last.fault) =>
        \A o \in DOMAIN tweets, u \in Users :
            (Wrappers(tweets, u, o) # {}) <=> (u \in tweets[o].retweets)

\* C5: a request that is answered with an error has not changed the store;
\* stated for the errors that arise while every store operation succeeds.
C5_NoPartialEffect == (last.resp >= 400 /\ ~last.fault) => ~last.wrote

\* The step in which request r, having run solo, finishes handler `op` with 200.
Finishes(r, op, pc) ==
    /\ reqs[r].op = op /\ reqs[r].pc = pc /\ reqs[r].solo
    /\ reqs'[r] = Idle
    /\ last'.op = op /\ last'.resp = 200

\* Tweet documents a and b agree on everything but their likes.
SameButLikes(a, b) == [a EXCEPT !.likes = {}] = [b EXCEPT !.likes = {}]

\* C9 as stated: after one like toggle of U on an existing post P, U is in
\* P.likes (whatever P.likes held before).
C9_LikedAfterOne ==
    (last.op = "like" /\ last.resp = 200 /\ last.solo /\ Exists(last.tweet))
        => last.actor \in tweets[last.tweet].likes

\* C9 amended: a like toggle of U on P that finds U not in P.likes leaves U in
\* P.likes; the like toggle of U on P run right after it leaves U out of
\* P.likes; and a like toggle changes nothing but U's membership of P.likes.
C9_LikeToggle ==
    [][\A r \in Slots :
          Finishes(r, "like", "update") =>
             LET u == reqs[r].actor
                 p == reqs[r].tweet
             IN /\ ~reqs[r].was => u \in tweets'[p].likes
                /\ (reqs[r].chain /\ ~reqs[r].was0) => u \notin tweets'[p].likes
                /\ DOMAIN tweets' = DOMAIN tweets
                /\ \A q \in DOMAIN tweets \ {p} : tweets'[q] = tweets[q]
                /\ SameButLikes(tweets'[p], tweets[p])
                /\ tweets'[p].likes \ {u} = tweets[p].likes \ {u}]_vars

\* C9 witness: the second of two like toggles of U on P has been answered, U
\* is out of P.likes again, and another user's like of P is still there.
C9_Witness ==
    /\ last.op = "like" /\ last.resp = 200 /\ last.solo
    /\ last.chain /\ ~last.was0 /\ last.was
    /\ Exists(last.tweet)
    /\ last.actor \notin tweets[last.tweet].likes
    /\ tweets[last.tweet].likes # {}
    /\ \E q \in DOMAIN tweets \ {last.tweet} : tweets[q].likes # {}

\* C10: a delete of P by its author, run solo and answered 200, leaves exactly
\* the posts that were stored when it began other than P and the replies to P,
\* each of them unchanged; a reply to a deleted reply stays.
C10_DeleteCascade ==
    [][\A r \in Slots :
          Finishes(r, "delete", "deleteMany") =>
             LET p == reqs[r].tweet
                 before == reqs[r].pre
             IN /\ before[p].user = reqs[r].actor
                /\ DOMAIN tweets' =
                      {i \in DOMAIN before : i # p /\ before[i].replyTo # p}
                /\ \A i \in DOMAIN tweets' : tweets'[i] = before[i]]_vars

\* C10 witness: a delete was answered 200, the deleted post and a reply to it
\* are gone, and a reply to that reply is still stored.
C10_Witness ==
    /\ last.op = "delete" /\ last.resp = 200 /\ last.wrote
    /\ last.tweet \notin DOMAIN tweets
    /\ \E g \in DOMAIN tweets :
          /\ tweets[g].replyTo \notin DOMAIN tweets \cup {NoTweet, last.tweet}
          /\ tweets[g].replyTo > last.tweet

(* ------------------- delete and create: error cases -------------------- *)

\* The step in which request r, waiting in handler `op` at `pc`, resumes with
\* the awaited store operation fulfilled (not the step in which it rejects).
Resumes(r, op, pc) ==
    /\ reqs[r].op = op /\ reqs[r].pc = pc
    /\ reqs'[r] # reqs[r]
    /\ ~last'.fault

\* C11: a delete of a post that is not stored is answered 404, a delete of a
\* stored post by somebody other than its author is answered 401, and neither
\* removes any post; a delete by the author goes on to the removal.
C11_DeleteRefused ==
    [][\A r \in Slots :
          Resumes(r, "delete", "find") =>
             LET p == reqs[r].tweet
             IN /\ tweets' = tweets
                /\ tweets = reqs[r].pre
                /\ IF p \notin DOMAIN tweets
                   THEN reqs'[r] = Idle /\ last'.resp = 404 /\ ~last'.wrote
                   ELSE IF tweets[p].user # reqs[r].actor
                   THEN reqs'[r] = Idle /\ last'.resp = 401 /\ ~last'.wrote
                   ELSE reqs'[r].pc = "deleteOne"]_vars

\* C11 witness: a delete by somebody other than the author was answered 401
\* and the post is still stored, with a reply to it.
C11_Witness ==
    /\ last.op = "delete" /\ last.resp = 401 /\ ~last.wrote
    /\ last.tweet \in DOMAIN tweets
    /\ tweets[last.tweet].user # last.actor
    /\ Replies(tweets, last.tweet) # {}

\* C12: a create with empty content and an attached image stores a post and is
\* answered 200; a create with empty content and no image is answered 400 and
\* stores nothing.
C12_EmptyContentWithImage ==
    [][\A r \in Slots :
          /\ (/\ Resumes(r, "create", "save")
              /\ reqs[r].content = <<>> /\ reqs[r].image)
                => /\ DOMAIN tweets' # DOMAIN tweets
                   /\ reqs'[r].pc = "populateUser"
          /\ (/\ Free(r) /\ last'.op = "create" /\ last'.resp = 400)
                => tweets' = tweets]_vars

(* ------------------------------ reads: claims --------------------------- *)

\* The posts a viewer's timeline is drawn from: no replyTo, and written by the
\* viewer or by somebody the viewer follows.
Eligible(viewer) ==
    {i \in DOMAIN tweets :
        /\ tweets[i].replyTo = NoTweet
        /\ (tweets[i].user = viewer \/ tweets[i].user \in following[viewer])}

\* How many of the posts in S are newer than post i.
Newer(S, i) ==
    Cardinality({j \in S : tweets[j].createdAt > tweets[i].createdAt})

\* C13: a timeline read of page `page` with page size `limit` answers exactly
\* the eligible posts at positions (page-1)*limit .. page*limit-1 of their
\* newest-first order: nothing else, no reply, no post of another author.
C13_TimelinePage ==
    [][\A r \in Slots :
          Resumes(r, "timeline", "find") =>
             LET b == last'.body
                 E == Eligible(reqs[r].actor)
                 skip == (reqs[r].page - 1) * reqs[r].limit
                 rest == Cardinality(E) - skip
             IN /\ last'.resp = 200
                /\ Len(b) = IF rest <= 0 THEN 0
                            ELSE IF rest < reqs[r].limit THEN rest
                            ELSE reqs[r].limit
                /\ \A k \in 1 .. Len(b) :
                      /\ b[k].id \in E
                      /\ Newer(E, b[k].id) = skip + k - 1
                /\ tweets' = tweets /\ following' = following]_vars

\* C13 witness: page 2 of page size 1 was answered with one post, the viewer
\* follows its author, and the store also holds a reply.
C13_Witness ==
    /\ last.op = "timeline" /\ last.resp = 200
    /\ last.page = 2 /\ last.limit = 1
    /\ Len(last.body) = 1
    /\ tweets[last.body[1].id].user \in following[last.actor]
    /\ tweets[last.body[1].id].user # last.actor
    /\ \E i \in DOMAIN tweets : tweets[i].replyTo # NoTweet

\* The ids of the items of a response body.
Ids(b) == {b[k].id : k \in 1 .. Len(b)}

\* C14: the timeline's first page (of the default size, which holds every
\* eligible post here) lists each eligible post with isLiked equal to the
\* viewer's membership of its likes in the store at that moment; and the reply
\* list of a post holds exactly the stored replies to it, so none when nobody
\* has replied.
C14_FlagsFollowStore ==
    [][\A r \in Slots :
          /\ Resumes(r, "timeline", "find") =>
                LET b == last'.body
                IN /\ Ids(b) = Eligible(reqs[r].actor)
                   /\ \A k \in 1 .. Len(b) :
                         b[k].isLiked = (reqs[r].actor \in tweets[b[k].id].likes)
          /\ Resumes(r, "comments", "find") =>
                /\ last'.resp = 200
                /\ Ids(last'.body) = {i \in DOMAIN tweets :
                                         tweets[i].replyTo = reqs[r].tweet}
                /\ Len(last'.body) = Cardinality(Ids(last'.body))]_vars

\* C14 witness: B follows A, has liked A's post, and B's timeline has just
\* shown that post with isLiked = true; nobody has replied to it.
C14_Witness ==
    /\ last.op = "timeline" /\ last.resp = 200
    /\ \E k \in 1 .. Len(last.body) :
          LET p == last.body[k].id
          IN /\ tweets[p].user # last.actor
             /\ tweets[p].user \in following[last.actor]
             /\ last.body[k].isLiked
             /\ last.actor \in tweets[p].likes
             /\ Replies(tweets, p) = {}

\* C15: every post returned by a public read (a post by id, the replies of a
\* post, the posts of a user) carries isLiked and isRetweeted; for a viewer
\* with a credential they are the viewer's membership of the post's likes and
\* retweets, for an anonymous viewer they are false.
C15_PublicReadFlags ==
    (last.op \in {"getTweet", "comments", "userTweets"} /\ last.resp = 200) =>
        \A k \in 1 .. Len(last.body) :
            LET item == last.body[k]
                doc == tweets[item.id]
            IN /\ {"isLiked", "isRetweeted"} \subseteq DOMAIN item
               /\ item.isLiked =
                     (last.actor # NoUser /\ last.actor \in doc.likes)
               /\ item.isRetweeted =
                     (last.actor # NoUser /\ last.actor \in doc.retweets)

\* C16: a profile read answers the number of stored posts of that user that
\* have no replyTo, and isFollowing equal to: the viewer has a credential and
\* the profile's user is in the viewer's following.
C16_ProfileCounts ==
    (last.op = "profile" /\ last.resp = 200 /\ last.target \in Users) =>
        /\ last.body[1].tweets =
              Cardinality({i \in DOMAIN tweets :
                              /\ tweets[i].user = last.target
                              /\ tweets[i].replyTo = NoTweet})
        /\ last.body[1].isFollowing =
              (last.actor # NoUser /\ last.target \in following[last.actor])

\* C19: GET /users/suggested by a user with a credential is answered 200 with
\* at most `limit` users, none of them the viewer or followed by the viewer,
\* and with some user whenever one is eligible.
C19_Suggested ==
    (last.target = "suggested" /\ last.actor \in Users /\ ~last.fault) =>
        LET eligible == (Users \ {last.actor}) \ following[last.actor]
        IN /\ last.resp = 200
           /\ last.users \subseteq eligible
           /\ Cardinality(last.users) <= SuggestedLimit
           /\ (eligible # {} => last.users # {})

\* C17: the posts listed for user A hold an entry whose retweetData is X
\* exactly while A's repost of X stands (A's adding toggle has run and A's
\* next toggle has not): that is, exactly when A is in X.retweets.
C17_RepostListed ==
    (last.op = "userTweets" /\ last.resp = 200 /\ last.target \in Users) =>
        \A x \in DOMAIN tweets :
            (last.target \in tweets[x].retweets)
               <=> (\E k \in 1 .. Len(last.body) :
                       tweets[last.body[k].id].retweetData = x)

\* C18: a removing repost toggle that finds no wrapper of the actor for the
\* post takes the actor out of the post's retweets, changes nothing else,
\* deletes no post and is answered 200.
C18_RemoveWithoutWrapper ==
    [][\A r \in Slots :
          LET u == reqs[r].actor
              p == reqs[r].tweet
          IN /\ (Resumes(r, "retweet", "update") /\ reqs[r].flag) =>
                   /\ DOMAIN tweets' = DOMAIN tweets
                   /\ u \notin tweets'[p].retweets
                   /\ tweets'[p].retweets \ {u} = tweets[p].retweets \ {u}
                   /\ [tweets' EXCEPT ![p].retweets = {}]
                         = [tweets EXCEPT ![p].retweets = {}]
                   /\ reqs'[r].pc = "deleteWrapper"
             /\ (/\ Resumes(r, "retweet", "deleteWrapper")
                 /\ Wrappers(tweets, u, p) = {}) =>
                   /\ tweets' = tweets
                   /\ reqs'[r] = Idle
                   /\ last'.resp = 200]_vars

\* C18 witness: a removing toggle was answered 200 with no wrapper stored; the
\* actor had been in the post's retweets and is not any more, and the post and
\* another user's repost mark are still there.
C18_Witness ==
    /\ last.op = "retweet" /\ last.resp = 200 /\ last.was /\ last.wrote
    /\ last.tweet \in DOMAIN tweets
    /\ last.actor \notin tweets[last.tweet].retweets
    /\ tweets[last.tweet].retweets # {}
    /\ Wrappers(tweets, last.actor, last.tweet) = {}

\* The content holds the query as a piece of text, letter case aside.
Contains(content, query) ==
    \E pos \in 1 .. Len(content) - Len(query) + 1 :
        \A k \in 1 .. Len(query) :
            Lower(query[k]) = Lower(content[pos + k - 1])

\* C20: a search answers only posts whose content contains the query, newest
\* first: all of them when at most 20 match, the 20 newest otherwise.
C20_SearchContains ==
    [][\A r \in Slots :
          Resumes(r, "search", "find") =>
             LET b == last'.body
                 M == {i \in DOMAIN tweets :
                          Contains(tweets[i].content, reqs[r].content)}
             IN /\ last'.resp = 200
                /\ Ids(b) \subseteq M
                /\ \A k \in 1 .. Len(b) : \A l \in 1 .. Len(b) :
                      k < l => tweets[b[k].id].createdAt
                                  > tweets[b[l].id].createdAt
                /\ Cardinality(M) <= SearchLimit => Ids(b) = M
                /\ Cardinality(M) > SearchLimit =>
                      /\ Len(b) = SearchLimit
                      /\ \A k \in 1 .. Len(b) : Newer(M, b[k].id) = k - 1]_vars

(* --------------------------- concurrency: claims ------------------------ *)

\* Request r, at step pc of handler op, takes that step itself (the step is not
\* one of another request interleaved with it) and no store operation fails.
Takes(r, op, pc) == Resumes(r, op, pc) /\ reqs'[r].pc # pc

\* C21: no two stored users share a username or an email, whatever register
\* calls have run and however they interleaved; a register call that finds
\* its username or email stored is answered 400, and a register call whose
\* save comes after another call has stored its username or email (the losing
\* call) is answered with an error and stores no user.
C21_UniqueAccounts ==
    [][/\ \A i \in 1 .. Len(accounts') : \A j \in 1 .. Len(accounts') :
             i # j => /\ accounts'[i].username # accounts'[j].username
                      /\ accounts'[i].email # accounts'[j].email
       /\ \A r \in Slots :
             /\ (/\ Takes(r, "register", "findOne")
                 /\ \E i \in 1 .. Len(accounts) :
                       \/ accounts[i].username = reqs[r].username
                       \/ accounts[i].email = reqs[r].email)
                   => last'.resp = 400 /\ reqs'[r] = Idle
             /\ (/\ Takes(r, "register", "save")
                 /\ \E i \in 1 .. Len(accounts) :
                       \/ accounts[i].username = reqs[r].username
                       \/ accounts[i].email = reqs[r].email)
                   => /\ reqs'[r] = Idle /\ last'.resp \notin {0, 200}
                      /\ accounts' = accounts]_vars

\* C22: when two follow calls of the same actor on the same target have been in
\* flight together, with every store operation succeeding, then once every
\* call has been answered B is in A.following exactly when A is in
\* B.followers.
C22_SymmetricAfterRace == (Quiet /\ overlap) => Symmetric

\* C23: in every state, repost toggles of one user on one post interleaved or
\* not, at most one stored post has user = U and retweetData = P; and once
\* every call has been answered, the author of every stored wrapper of P is in
\* P.retweets.
C23_OneWrapper ==
    /\ \A u \in Users, p \in TweetIds : Cardinality(Wrappers(tweets, u, p)) <= 1
    /\ Quiet => \A i \in DOMAIN tweets :
                   (tweets[i].retweetData # NoTweet /\ Exists(tweets[i].retweetData))
                      => tweets[i].user \in tweets[tweets[i].retweetData].retweets

\* C23 witness: two repost toggles of U on P were interleaved and both are
\* answered: the one that read U absent from P.retweets added U and has just
\* been answered, after the other, which read U present, pulled U out again.
C23_Witness ==
    /\ Quiet
    /\ last.op = "retweet" /\ ~last.solo /\ ~last.fault
    /\ ~last.was /\ last.resp = 500
    /\ Exists(last.tweet)
    /\ last.actor \notin tweets[last.tweet].retweets

\* C24: a reply is stored only if its parent exists: a create whose replyTo
\* names a missing post is answered 404 and stores nothing; and when a delete
\* of P was answered 200 while a create with replyTo = P was in flight, then
\* once the create is answered too no stored post has replyTo = P.
C24_ReplyNeedsParent ==
    [][\A r \in Slots :
          /\ (Takes(r, "create", "findParent") /\ ~Exists(reqs[r].replyTo))
                => /\ last'.resp = 404 /\ reqs'[r] = Idle
                   /\ tweets' = tweets
          /\ (/\ reqs[r].op = "create" /\ reqs[r].replyTo # NoTweet
              /\ reqs'[r] = Idle
              /\ last.op = "delete" /\ last.resp = 200
              /\ last.tweet = reqs[r].replyTo)
                => Replies(tweets', reqs[r].replyTo) = {}]_vars


====
